---- MODULE Spec2Model ----
(***************************************************************************)
(* Model of app/main.py: a FastAPI application with three routes           *)
(*   GET /         root()     counts the request, sets the gauge           *)
(*   POST /submit  submit()   rejects an empty object, else counts+echoes  *)
(*   GET /metrics  metrics()  renders the default prometheus registry      *)
(* over three module-level metrics REQUEST_COUNT, POST_REQUEST_COUNT and   *)
(* RANDOM_GAUGE.                                                           *)
(*                                                                         *)
(* The handlers are coroutines (async def) without any await: the event    *)
(* loop runs each handler body from its first statement to its return     *)
(* without switching to another handler.  Concurrency is therefore the     *)
(* interleaving of whole handler bodies of the requests in flight, in any  *)
(* order, and each handler is one action.                                  *)
(*                                                                         *)
(* Time is counted in ticks of 1/TicksPerSecond seconds, so that the       *)
(* fractional values of time.time() are represented.                       *)
(***************************************************************************)
EXTENDS Integers, Sequences, FiniteSets, TLC

\* ------------------------------------------------------------------ bounds

\* Number of requests the clients issue in one behaviour.
MaxReq == 3

\* Last tick of the wall clock.
MaxTime == 120

\* Clock resolution: ticks per second.
TicksPerSecond == 2

\* ------------------------------------------------------ program constants

\* time.time() % 60
Period == 60

CONTENT_TYPE_LATEST == "text/plain; version=0.0.4; charset=utf-8"

\* ------------------------------------------------------------ input sets

Slots == 1..MaxReq

KeySets == {{}, {"a"}, {"a", "b"}}

Vals == {1}

\* The JSON objects a client sends to /submit, parsed into a dict:
\* functions from a finite set of keys to values; the empty object is the
\* function of empty domain.
Payloads == UNION {[S -> Vals] : S \in KeySets}

EmptyDict == CHOOSE d \in Payloads : DOMAIN d = {}

\* The clock readings kept: those around the wrap of the gauge.
Times == {t \in 0..MaxTime : t % (Period * TicksPerSecond) \in {0, Period * TicksPerSecond - 1}}

\* ------------------------------------------------------------------ state

VARIABLES
    request_count,       \* value of REQUEST_COUNT
    post_request_count,  \* value of POST_REQUEST_COUNT
    random_gauge,        \* value of RANDOM_GAUGE, in ticks
    REGISTRY,            \* the default registry: sequence of metric families
    created_series,      \* whether counters export their _created series
    now,                 \* time.time(), in ticks
    req,                 \* the requests: slot -> request record
    held                 \* history: per request, the values each counter
                         \* held by other handlers' doing while the request
                         \* was in flight, from the value at its issue on

vars == <<request_count, post_request_count, random_gauge, REGISTRY,
          created_series, now, req, held>>

metric_vars == <<request_count, post_request_count, random_gauge>>

NoBody == [none |-> TRUE]

NoData == EmptyDict

IdleReq == [state |-> "idle", route |-> "/", data |-> NoData,
            status_code |-> 0, body |-> NoBody]

NoHeld == [request_count |-> {}, post_request_count |-> {}]

\* ------------------------------------------------------- metric families

REQUEST_COUNT_M == [name |-> "request_count",
                    documentation |-> "Total request count",
                    type |-> "counter"]

POST_REQUEST_COUNT_M == [name |-> "post_request_count",
                         documentation |-> "Total POST request count",
                         type |-> "counter"]

RANDOM_GAUGE_M == [name |-> "random_gauge",
                   documentation |-> "A random gauge value",
                   type |-> "gauge"]

\* The metrics the application declares, in declaration order.
Declared == <<REQUEST_COUNT_M, POST_REQUEST_COUNT_M, RANDOM_GAUGE_M>>

\* Importing prometheus_client registers the library's own collectors in
\* the default registry before the application's metrics; the platform
\* collector (python_info) stands for them.
PYTHON_INFO_M == [name |-> "python_info",
                  documentation |-> "Python platform information",
                  type |-> "gauge"]

LibraryCollectors == <<PYTHON_INFO_M>>

\* ------------------------------------------------------------- operators

\* Counter.inc(): adds 1.  (IncTwice, IncWrap: faulty variants, as are the
\* other definitions that stand right before the one they vary.)
IncTwice(v) == v + 2
IncWrap(v) == (v + 1) % 2
Inc(v) == v + 1

\* time.time() % 60, on a reading t in ticks.
SecondsOfMinuteOff(t) == t % (Period * TicksPerSecond + 1)
SecondsOfMinute(t) == t % (Period * TicksPerSecond)

\* `not data` of a dict.
IsEmptyInverted(data) == DOMAIN data # {}
IsEmpty(data) == DOMAIN data = {}

\* The value a family's sample is collected with: the current value of an
\* application metric; python_info is the constant 1.
ValueOfTorn(name) ==
    CASE name = "request_count" -> request_count + post_request_count
      [] name = "post_request_count" -> post_request_count
      [] name = "random_gauge" -> random_gauge
      [] OTHER -> 1
ValueOf(name) ==
    CASE name = "request_count" -> request_count
      [] name = "post_request_count" -> post_request_count
      [] name = "random_gauge" -> random_gauge
      [] OTHER -> 1

\* One HELP/TYPE/samples block of the text exposition.  A name is the pair
\* <<family name, suffix>>.
Sample(n, v) == [name |-> n, value |-> v]

Block(name, suffix, doc, type, v) ==
    [help |-> << <<name, suffix>>, doc >>,
     type |-> << <<name, suffix>>, type >>,
     samples |-> << Sample(<<name, suffix>>, v) >>]

\* The blocks generate_latest() emits for one metric family: a counter is
\* exposed as <name>_total and, unless disabled, followed by the gauge
\* <name>_created holding its creation time (the process start, tick 0).
FamilyBlocks(m, created) ==
    IF m.type = "counter"
    THEN <<Block(m.name, "_total", m.documentation, "counter", ValueOf(m.name))>>
         \o (IF created
             THEN <<Block(m.name, "_created", m.documentation, "gauge", 0)>>
             ELSE <<>>)
    ELSE <<Block(m.name, "", m.documentation, m.type, ValueOf(m.name))>>

RECURSIVE RenderFamilies(_, _)
RenderFamilies(families, created) ==
    IF families = <<>> THEN <<>>
    ELSE FamilyBlocks(Head(families), created)
         \o RenderFamilies(Tail(families), created)

\* generate_latest(): the exposition of every family of the default registry.
generate_latest_drop == RenderFamilies(SubSeq(REGISTRY, 1, Len(REGISTRY) - 1), created_series)
generate_latest == RenderFamilies(REGISTRY, created_series)

\* ------------------------------------------------------------------- Init

Init ==
    /\ request_count = 0
    /\ post_request_count = 0
    /\ random_gauge = 0
    /\ REGISTRY = LibraryCollectors \o Declared
    /\ created_series \in BOOLEAN
    /\ now = 0
    /\ req = [i \in Slots |-> IdleReq]
    /\ held = [i \in Slots |-> NoHeld]

\* ---------------------------------------------------------------- actions

Pending(i, route) == req[i].state = "pending" /\ req[i].route = route

Done(i, route) == req[i].state = "done" /\ req[i].route = route

\* The requests in flight other than `self` see the values the counters take.
Track(self, rc, prc) ==
    [i \in Slots |->
        IF req[i].state = "pending" /\ i # self
        THEN [request_count |-> held[i].request_count \cup {rc},
              post_request_count |-> held[i].post_request_count \cup {prc}]
        ELSE held[i]]

Respond(i, code, body) ==
    [req EXCEPT ![i].state = "done", ![i].status_code = code, ![i].body = body]

\* A client issues a request: it is routed to its handler, which has not
\* run yet.  Requests are numbered in the order of their arrival.
Send(i, route, data) ==
    /\ req[i].state = "idle"
    /\ \A j \in Slots : j < i => req[j].state # "idle"
    /\ req' = [req EXCEPT ![i].state = "pending", ![i].route = route,
                          ![i].data = data]
    /\ held' = [held EXCEPT ![i] = [request_count |-> {request_count},
                                    post_request_count |-> {post_request_count}]]
    /\ UNCHANGED <<metric_vars, REGISTRY, created_series, now>>

\* The wall clock advances.
Tick(t) ==
    /\ t > now
    /\ now' = t
    /\ UNCHANGED <<metric_vars, REGISTRY, created_series, req, held>>

Min(S) == CHOOSE x \in S : \A y \in S : x <= y

\* GET /
root_racy(i) ==
    /\ Pending(i, "/")
    /\ request_count' = Min(held[i].request_count) + 1
    /\ random_gauge' = SecondsOfMinute(now)
    /\ req' = Respond(i, 200, [message |-> "Hello World"])
    /\ held' = Track(i, request_count', post_request_count)
    /\ UNCHANGED <<post_request_count, REGISTRY, created_series, now>>
root(i) ==
    /\ Pending(i, "/")
    /\ request_count' = Inc(request_count)
    /\ random_gauge' = SecondsOfMinute(now)
    /\ req' = Respond(i, 200, [message |-> "Hello World"])
    /\ held' = Track(i, request_count', post_request_count)
    /\ UNCHANGED <<post_request_count, REGISTRY, created_series, now>>

\* POST /submit
submit_count_first(i) ==
    /\ Pending(i, "/submit")
    /\ post_request_count' = Inc(post_request_count)
    /\ held' = Track(i, request_count, post_request_count')
    /\ IF IsEmpty(req[i].data)
       THEN req' = Respond(i, 400, [detail |-> "No data provided"])
       ELSE req' = Respond(i, 200, [received_data |-> req[i].data])
    /\ UNCHANGED <<request_count, random_gauge, REGISTRY, created_series, now>>
submit_wrong_counter(i) ==
    /\ Pending(i, "/submit")
    /\ IF IsEmpty(req[i].data)
       THEN /\ req' = Respond(i, 400, [detail |-> "No data provided"])
            /\ UNCHANGED <<request_count, post_request_count, held>>
       ELSE /\ request_count' = Inc(request_count)
            /\ req' = Respond(i, 200, [received_data |-> req[i].data])
            /\ held' = Track(i, request_count', post_request_count)
            /\ UNCHANGED post_request_count
    /\ UNCHANGED <<random_gauge, REGISTRY, created_series, now>>
submit(i) ==
    /\ Pending(i, "/submit")
    /\ IF IsEmpty(req[i].data)
       THEN /\ req' = Respond(i, 400, [detail |-> "No data provided"])
            /\ UNCHANGED <<post_request_count, held>>
       ELSE /\ post_request_count' = Inc(post_request_count)
            /\ req' = Respond(i, 200, [received_data |-> req[i].data])
            /\ held' = Track(i, request_count, post_request_count')
    /\ UNCHANGED <<request_count, random_gauge, REGISTRY, created_series, now>>

\* GET /metrics
metrics_counted(i) ==
    /\ Pending(i, "/metrics")
    /\ request_count' = Inc(request_count)
    /\ req' = Respond(i, 200, [content |-> generate_latest,
                               media_type |-> CONTENT_TYPE_LATEST])
    /\ held' = Track(i, request_count', post_request_count)
    /\ UNCHANGED <<post_request_count, random_gauge, REGISTRY, created_series, now>>
metrics(i) ==
    /\ Pending(i, "/metrics")
    /\ req' = Respond(i, 200, [content |-> generate_latest,
                               media_type |-> CONTENT_TYPE_LATEST])
    /\ UNCHANGED <<metric_vars, REGISTRY, created_series, now, held>>

Next ==
    \/ \E i \in Slots, data \in Payloads : Send(i, "/submit", data)
    \/ \E i \in Slots : Send(i, "/", NoData)
    \/ \E i \in Slots : Send(i, "/metrics", NoData)
    \/ \E t \in Times : Tick(t)
    \/ \E i \in Slots : root(i)
    \/ \E i \in Slots : submit(i)
    \/ \E i \in Slots : metrics(i)

Spec == Init /\ [][Next]_vars

\* ----------------------------------------------------- reading responses

\* Request i's handler runs in this step.
Completes(i, route) == Pending(i, route) /\ req'[i].state = "done"

\* The name a declared metric is exposed under.
ExpositionName(m) == IF m.type = "counter" THEN <<m.name, "_total">> ELSE <<m.name, "">>

\* The positions of the blocks of an exposition that carry a name.
BlocksNamed(content, nm) == {k \in 1..Len(content) : content[k].help[1] = nm}

\* The value an exposition reports for a name.
Reported(content, nm) ==
    LET k == CHOOSE k \in 1..Len(content) : content[k].samples[1].name = nm
    IN content[k].samples[1].value

GaugeRange == 0..(Period * TicksPerSecond - 1)

IssuedRoots == {i \in Slots : req[i].route = "/" /\ req[i].state # "idle"}

CompletedRoots == {i \in Slots : Done(i, "/")}

AcceptedSubmits == {i \in Slots : Done(i, "/submit") /\ req[i].status_code = 200}

RejectedSubmits == {i \in Slots : Done(i, "/submit") /\ req[i].status_code = 400}

CompletedScrapes == {i \in Slots : Done(i, "/metrics")}

\* ----------------------------------------------------------------- claims

\* C1: when every GET / request that was issued has completed, whatever the
\* order in which the handlers of the requests in flight ran, request_count
\* equals the number of GET / requests issued: no increment is lost.
C1_NoLostUpdate ==
    (\A i \in Slots : ~Pending(i, "/")) => request_count = Cardinality(IssuedRoots)

\* Two GET / requests have completed, one of them while the other was in
\* flight, and no GET / is pending.
C1_Witness ==
    /\ \A i \in Slots : ~Pending(i, "/")
    /\ \E i, j \in CompletedRoots :
          i # j /\ Cardinality(held[i].request_count) >= 2

\* C2: a POST /submit with a non-empty object o is answered 200 with the
\* body {"received_data": o}, o unchanged, and its handler increases
\* post_request_count by exactly 1.
C2_EchoAccepted ==
    [][\A i \in Slots :
          (Completes(i, "/submit") /\ DOMAIN req[i].data # {}) =>
              /\ req'[i].status_code = 200
              /\ req'[i].body = [received_data |-> req[i].data]
              /\ req'[i].data = req[i].data
              /\ post_request_count' = post_request_count + 1]_vars

\* A two-key object was echoed after another object had been accepted.
C2_Witness ==
    \E i \in AcceptedSubmits :
        /\ DOMAIN req[i].data = {"a", "b"}
        /\ req[i].body = [received_data |-> req[i].data]
        /\ post_request_count >= 2

\* C3: a POST /submit with the empty object is answered 400 with the detail
\* "No data provided" and its handler leaves post_request_count as it was.
C3_EmptyRejected ==
    [][\A i \in Slots :
          (Completes(i, "/submit") /\ DOMAIN req[i].data = {}) =>
              /\ req'[i].status_code = 400
              /\ req'[i].body = [detail |-> "No data provided"]
              /\ post_request_count' = post_request_count]_vars

\* An empty object was rejected, another object was accepted.
C3_Witness ==
    /\ \E i \in RejectedSubmits : DOMAIN req[i].data = {}
    /\ post_request_count >= 1

\* C4: the handler of every GET / increases request_count by exactly 1 and
\* answers 200 with {"message": "Hello World"}, whatever ran before.
C4_RootCounts ==
    [][\A i \in Slots :
          Completes(i, "/") =>
              /\ request_count' = request_count + 1
              /\ req'[i].status_code = 200
              /\ req'[i].body = [message |-> "Hello World"]]_vars

\* Two GET / have been answered, after a POST /submit was accepted.
C4_Witness ==
    /\ Cardinality(CompletedRoots) >= 2
    /\ AcceptedSubmits # {}
    /\ \A i \in CompletedRoots : req[i].body = [message |-> "Hello World"]

\* C5: no step decreases request_count or post_request_count.
C5_CountersMonotone ==
    [][/\ request_count' >= request_count
       /\ post_request_count' >= post_request_count]_vars

\* Both counters have grown, request_count twice.
C5_Witness ==
    /\ request_count >= 2
    /\ post_request_count >= 1

\* C6: the handler of GET /metrics leaves the three metrics unchanged, so
\* that rendering again right after it gives the same exposition.
C6_ScrapeIsPureRead ==
    [][\A i \in Slots :
          Completes(i, "/metrics") =>
              /\ request_count' = request_count
              /\ post_request_count' = post_request_count
              /\ random_gauge' = random_gauge
              /\ req'[i].body.content = generate_latest']_vars

\* Two scrapes have reported the same exposition after a GET /.
C6_Witness ==
    /\ request_count >= 1
    /\ \E i, j \in CompletedScrapes :
          i # j /\ req[i].body.content = req[j].body.content
                /\ Reported(req[i].body.content, <<"request_count", "_total">>) = 1

\* C7, as stated: every exposition consists of exactly one block per
\* declared metric, three blocks in all.
C7_ExactlyThreeBlocks ==
    \A i \in CompletedScrapes :
        LET c == req[i].body.content
        IN /\ Len(c) = Len(Declared)
           /\ \A k \in 1..Len(c) : Len(c[k].samples) = 1
           /\ {<<c[k].help[1][1], c[k].type[2]>> : k \in 1..Len(c)}
                = {<<Declared[d].name, Declared[d].type>> : d \in 1..Len(Declared)}

\* C7, amended: the registry holds the library's collectors and the three
\* declared metrics in every state, and every exposition contains, for each
\* declared metric, exactly one block under the metric's exposition name,
\* with its documentation, its type and one sample (among other blocks).
C7_DeclaredMetricsExposed ==
    /\ REGISTRY = LibraryCollectors \o Declared
    /\ \A i \in CompletedScrapes :
          LET c == req[i].body.content
          IN \A d \in 1..Len(Declared) :
                LET m == Declared[d]
                    nm == ExpositionName(m)
                IN /\ Cardinality(BlocksNamed(c, nm)) = 1
                   /\ \A k \in BlocksNamed(c, nm) :
                         /\ c[k].help = <<nm, m.documentation>>
                         /\ c[k].type = <<nm, m.type>>
                         /\ Len(c[k].samples) = 1
                         /\ c[k].samples[1].name = nm
    /\ \A i, j \in CompletedScrapes :
          LET c == req[i].body.content
              e == req[j].body.content
          IN /\ Len(c) = Len(e)
             /\ \A k \in 1..Len(c) : c[k].type = e[k].type

\* A scrape was answered after a GET / and an accepted POST /submit.
C7_Witness ==
    /\ CompletedScrapes # {}
    /\ request_count >= 1
    /\ post_request_count >= 1

\* C8: random_gauge always lies in [0, 60) seconds; the handler of GET /
\* sets it to the clock reading modulo 60 seconds, no other step changes
\* it, and the value a scrape reports lies in [0, 60) seconds.
C8_GaugeRange ==
    [][/\ random_gauge' \in GaugeRange
       /\ \A i \in Slots :
             Completes(i, "/") => random_gauge' = now % (Period * TicksPerSecond)
       /\ (\A i \in Slots : ~Completes(i, "/")) => random_gauge' = random_gauge
       /\ \A i \in Slots :
             Completes(i, "/metrics") =>
                 Reported(req'[i].body.content, <<"random_gauge", "">>) \in GaugeRange]_vars

\* A scrape reported the gauge set by a GET / that ran when the clock had
\* passed a whole minute.
C8_Witness ==
    /\ now >= Period * TicksPerSecond
    /\ random_gauge = 0
    /\ CompletedRoots # {}
    /\ \E i \in CompletedScrapes :
          /\ Reported(req[i].body.content, <<"random_gauge", "">>) = Period * TicksPerSecond - 1
          /\ Reported(req[i].body.content, <<"request_count", "_total">>) >= 1

\* C9: the value a scrape reports for each counter is a value the counter
\* held between the issue of the scrape and its answer.
C9_ScrapeReportsHeldValue ==
    \A i \in CompletedScrapes :
        LET c == req[i].body.content
        IN /\ Reported(c, <<"request_count", "_total">>) \in held[i].request_count
           /\ Reported(c, <<"post_request_count", "_total">>) \in held[i].post_request_count

\* A scrape was answered after both counters had changed while it was in
\* flight.
C9_Witness ==
    \E i \in CompletedScrapes :
        /\ Cardinality(held[i].request_count) >= 2
        /\ Cardinality(held[i].post_request_count) >= 2

\* C10: the handler of GET / leaves post_request_count unchanged, that of
\* an accepted POST /submit leaves request_count and random_gauge unchanged,
\* that of a rejected POST /submit leaves the three metrics unchanged; and
\* after every step request_count is the number of answered GET / and
\* post_request_count the number of accepted POST /submit.
C10_HandlersOwnMetrics ==
    [][/\ \A i \in Slots :
             Completes(i, "/") => post_request_count' = post_request_count
       /\ \A i \in Slots :
             (Completes(i, "/submit") /\ req'[i].status_code = 200) =>
                 /\ request_count' = request_count
                 /\ random_gauge' = random_gauge
       /\ \A i \in Slots :
             (Completes(i, "/submit") /\ req'[i].status_code = 400) =>
                 /\ request_count' = request_count
                 /\ post_request_count' = post_request_count
                 /\ random_gauge' = random_gauge
       /\ request_count' = Cardinality(CompletedRoots')
       /\ post_request_count' = Cardinality(AcceptedSubmits')]_vars

\* A GET /, an accepted and a rejected POST /submit have been answered.
C10_Witness ==
    /\ CompletedRoots # {}
    /\ AcceptedSubmits # {}
    /\ RejectedSubmits # {}

====
